---- MODULE Spec2Model ----
(***************************************************************************)
(* A model of src/runner/deps.go: the single-slot compiled-pattern cache   *)
(* behind TestDeps.MatchString and the mutex-guarded test log behind       *)
(* StartTestLog / StopTestLog / Getenv / Open / Stat / Chdir.              *)
(*                                                                         *)
(* Strings are sequences of one-character strings, so that the code's      *)
(* tests on their content (strings.Contains, regexp matching, the line     *)
(* format) are computed and not assumed.                                   *)
(***************************************************************************)
EXTENDS Integers, Sequences, FiniteSets, TLC

(***************************************************************************)
(* Bounds of the model.                                                    *)
(***************************************************************************)
\* longest pattern handed to MatchString
MaxPatLen == 2
\* longest candidate handed to MatchString
MaxStrLen == 2
\* number of test-log calls (start, stop, record) made in one run
MaxCalls == 4
\* longest vals and types handed to CheckCorpus
MaxCorpusLen == 2
\* number of MatchString calls made in one run under concurrent use
MaxMatchCalls == 3

(***************************************************************************)
(* Inputs.                                                                 *)
(***************************************************************************)
\* goroutines calling into the test log
Procs == {1, 2}
\* the one goroutine calling MatchString under sequential use
MatchCallers == {1}
\* the goroutines calling MatchString under concurrent use
MatchProcs == {1, 2}

RECURSIVE SeqsUpTo(_, _)
SeqsUpTo(S, n) ==
    IF n = 0 THEN {<<>>}
    ELSE LET shorter == SeqsUpTo(S, n - 1)
         IN  shorter \cup {Append(s, c) : s \in shorter, c \in S}

\* pattern syntax: a literal, the wildcard, and an opening parenthesis that
\* nothing closes (the alphabet has no ")"), which regexp.Compile rejects
PatChars == {"a", ".", "("}
StrChars == {"a", "b"}
Patterns == SeqsUpTo(PatChars, MaxPatLen)
Candidates == SeqsUpTo(StrChars, MaxStrLen)
\* the patterns and candidates of concurrent callers: two valid patterns
\* that differ on "b", and one that does not compile
ConcPatterns == {<<"a">>, <<".">>, <<"(">>}
ConcCandidates == {<<"a">>, <<"b">>}

(***************************************************************************)
(* regexp.Compile and Regexp.MatchString on the pattern syntax above.   *)
(***************************************************************************)
\* the nil *regexp.Regexp
NoRe == [nil |-> TRUE, prog |-> <<>>]

\* the instruction a pattern character compiles to
Inst(c) == IF c = "." THEN [op |-> "any", c |-> ""] ELSE [op |-> "char", c |-> c]

\* regexp.Compile: (nil, error) for an unclosed "(", a program otherwise
Compile(p) ==
    IF \E i \in 1..Len(p) : p[i] = "("
    THEN [re |-> NoRe, err |-> "missing closing )"]
    ELSE [re |-> [nil |-> FALSE, prog |-> [i \in 1..Len(p) |-> Inst(p[i])]],
          err |-> "nil"]

\* one instruction against one character
Step(in, ch) == in.op = "any" \/ in.c = ch

\* Regexp.MatchString: an unanchored search of the program in s
ReMatch(re, s) ==
    \E off \in 0..Len(s) :
        /\ off + Len(re.prog) <= Len(s)
        /\ \A j \in 1..Len(re.prog) : Step(re.prog[j], s[off + j])

(***************************************************************************)
(* State.                                                                  *)
(***************************************************************************)
VARIABLES
    matchPat,   \* var matchPat string
    matchRe,    \* var matchRe *regexp.Regexp
    mpc,        \* each MatchString caller's position
    mpat,       \* its argument pat
    mstr,       \* its argument str
    mres,       \* its named result `result`
    merr,       \* its named result `err`
    mdone,      \* whether it has completed a call (mres, merr are that call's)
    mprev,      \* the call completed before the last one: its pat and err
    mcompiled,  \* whether the call in progress, or just completed, compiled
    mpanic,     \* MatchString dereferenced a nil matchRe
    mlastc,     \* history: the pat of the last call that ran line 47
    mld,        \* line 47: the value of matchPat the caller has loaded and
                \* handed to regexp.Compile
    moverlap,   \* history: two callers have been inside MatchString at
                \* the same time
    mcalls,     \* MatchString calls made so far under concurrent use
    mu,         \* log.mu: 0 when free, else the goroutine holding it
    logw,       \* log.w: the *bufio.Writer, or nil
    logset,     \* log.set
    sinks,      \* what each io.Writer handed to StartTestLog has received
    registered, \* how often SetLogger has been called
    lpc,        \* each test-log caller's position
    lcall,      \* the entry point it is in, or was last in
    lop,        \* add's argument op
    lname,      \* add's argument name
    lsink,      \* StartTestLog's argument w
    lerr,       \* StopTestLog's local err, then its return value
    ldone,      \* whether the call named by lcall has returned
    ncalls,     \* calls made so far
    lpanic,     \* the process died of a nil dereference or a second SetLogger
    cur,        \* history: the sink of the last bufio.NewWriter and what the
                \* writer made then has been handed since (header, lines)
    starts,     \* history: StartTestLog calls that have returned
    hdrs,       \* history: how often the header has been written
    handed,     \* history: for each sink, what the writers over it have
                \* been handed, each entry marked gone once its writer has
                \* been replaced unflushed
    flushfail,  \* history: whether a Flush has failed
    cvals,      \* CheckCorpus's argument vals
    ctypes,     \* CheckCorpus's argument types
    cpc,        \* whether CheckCorpus has been called and has returned
    cres        \* what CheckCorpus returned

mvars == <<matchPat, matchRe, mpc, mpat, mstr, mres, merr, mdone, mprev,
           mcompiled, mpanic, mlastc, mld, moverlap, mcalls>>

lvars == <<mu, logw, logset, sinks, registered, lpc, lcall, lop, lname, lsink,
           lerr, ldone, ncalls, lpanic, cur, starts, hdrs, handed, flushfail>>

cvars == <<cvals, ctypes, cpc, cres>>

vars == <<mvars, lvars, cvars>>


NoCall == [called |-> FALSE, pat |-> <<>>, err |-> "nil"]

MatchInit ==
    /\ matchPat = <<>>
    /\ matchRe = NoRe
    /\ mpc = [p \in MatchProcs |-> "idle"]
    /\ mpat = [p \in MatchProcs |-> <<>>]
    /\ mstr = [p \in MatchProcs |-> <<>>]
    /\ mres = [p \in MatchProcs |-> FALSE]
    /\ merr = [p \in MatchProcs |-> "nil"]
    /\ mdone = [p \in MatchProcs |-> FALSE]
    /\ mprev = [p \in MatchProcs |-> NoCall]
    /\ mcompiled = [p \in MatchProcs |-> FALSE]
    /\ mpanic = FALSE
    /\ mlastc = <<>>
    /\ mld = [p \in MatchProcs |-> <<>>]
    /\ moverlap = FALSE
    /\ mcalls = 0

(***************************************************************************)
(* TestDeps.MatchString, one action per statement.                         *)
(***************************************************************************)
\* the left operand of line 45 as it would be if the nil test were missing
SlotAbsentNever(re) == FALSE

\* the right operand of line 45 as it would be if the pattern test were
\* missing
PatDiffersNever(cached, pat) == FALSE

\* line 45, left operand: matchRe == nil, on the matchRe the caller loads
SlotAbsent(re) == re.nil

\* line 45, right operand: matchPat != pat, on the matchPat the caller loads
PatDiffers(cached, pat) == cached # pat

\* the callers other than p that are inside a call
OthersInCall(p) == {q \in MatchProcs \ {p} : mpc[q] # "idle"}

\* the caller enters MatchString(pat, str); result and err start zeroed
MatchCallWith(p, pats, strs) ==
    /\ ~mpanic
    /\ mpc[p] = "idle"
    /\ \E pat \in pats, str \in strs :
        /\ mpat' = [mpat EXCEPT ![p] = pat]
        /\ mstr' = [mstr EXCEPT ![p] = str]
    /\ mprev' = [mprev EXCEPT ![p] =
                    IF mdone[p]
                    THEN [called |-> TRUE, pat |-> mpat[p], err |-> merr[p]]
                    ELSE NoCall]
    /\ mres' = [mres EXCEPT ![p] = FALSE]
    /\ merr' = [merr EXCEPT ![p] = "nil"]
    /\ mdone' = [mdone EXCEPT ![p] = FALSE]
    /\ mcompiled' = [mcompiled EXCEPT ![p] = FALSE]
    /\ mpc' = [mpc EXCEPT ![p] = "test"]
    /\ moverlap' = (moverlap \/ OthersInCall(p) # {})
    /\ UNCHANGED <<matchPat, matchRe, mpanic, mlastc, mld>>
    /\ UNCHANGED <<lvars, cvars>>

\* a call under sequential use
MatchCall(p) ==
    /\ MatchCallWith(p, Patterns, Candidates)
    /\ UNCHANGED mcalls

\* a call under concurrent use
ConcMatchCall(p) ==
    /\ mcalls < MaxMatchCalls
    /\ MatchCallWith(p, ConcPatterns, ConcCandidates)
    /\ mcalls' = mcalls + 1

\* line 45, left operand of ||: loads matchRe; when it is nil the right
\* operand is not evaluated
MatchTest(p) ==
    /\ ~mpanic
    /\ mpc[p] = "test"
    /\ mpc' = [mpc EXCEPT ![p] =
                IF SlotAbsent(matchRe) THEN "setpat" ELSE "testpat"]
    /\ UNCHANGED <<matchPat, matchRe, mpat, mstr, mres, merr, mdone, mprev,
                   mcompiled, mpanic, mlastc, mld, moverlap, mcalls>>
    /\ UNCHANGED <<lvars, cvars>>

\* line 45, right operand of ||: loads matchPat
MatchTestPat(p) ==
    /\ ~mpanic
    /\ mpc[p] = "testpat"
    /\ mpc' = [mpc EXCEPT ![p] =
                IF PatDiffers(matchPat, mpat[p]) THEN "setpat" ELSE "eval"]
    /\ UNCHANGED <<matchPat, matchRe, mpat, mstr, mres, merr, mdone, mprev,
                   mcompiled, mpanic, mlastc, mld, moverlap, mcalls>>
    /\ UNCHANGED <<lvars, cvars>>

\* line 46
MatchSetPat(p) ==
    /\ ~mpanic
    /\ mpc[p] = "setpat"
    /\ matchPat' = mpat[p]
    /\ mpc' = [mpc EXCEPT ![p] = "load"]
    /\ UNCHANGED <<matchRe, mpat, mstr, mres, merr, mdone, mprev, mcompiled,
                   mpanic, mlastc, mld, moverlap, mcalls>>
    /\ UNCHANGED <<lvars, cvars>>

\* line 47, the operand: loads the global matchPat and enters
\* regexp.Compile with it
MatchLoad(p) ==
    /\ ~mpanic
    /\ mpc[p] = "load"
    /\ mld' = [mld EXCEPT ![p] = matchPat]
    /\ mpc' = [mpc EXCEPT ![p] = "compile"]
    /\ UNCHANGED <<matchPat, matchRe, mpat, mstr, mres, merr, mdone, mprev,
                   mcompiled, mpanic, mlastc, moverlap, mcalls>>
    /\ UNCHANGED <<lvars, cvars>>

\* line 47, the assignment: regexp.Compile has returned; stores the global
\* matchRe and err
MatchCompile(p) ==
    /\ ~mpanic
    /\ mpc[p] = "compile"
    /\ matchRe' = Compile(mld[p]).re
    /\ merr' = [merr EXCEPT ![p] = Compile(mld[p]).err]
    /\ mcompiled' = [mcompiled EXCEPT ![p] = TRUE]
    /\ mpc' = [mpc EXCEPT ![p] = "errcheck"]
    /\ mlastc' = mpat[p]
    /\ UNCHANGED <<matchPat, mpat, mstr, mres, mdone, mprev, mpanic, mld,
                   moverlap, mcalls>>
    /\ UNCHANGED <<lvars, cvars>>

\* lines 48-50: a failed compile returns (false, err)
MatchErrCheck(p) ==
    /\ ~mpanic
    /\ mpc[p] = "errcheck"
    /\ IF merr[p] # "nil"
       THEN /\ mpc' = [mpc EXCEPT ![p] = "idle"]
            /\ mdone' = [mdone EXCEPT ![p] = TRUE]
       ELSE /\ mpc' = [mpc EXCEPT ![p] = "eval"]
            /\ UNCHANGED mdone
    /\ UNCHANGED <<matchPat, matchRe, mpat, mstr, mres, merr, mprev, mcompiled,
                   mpanic, mlastc, mld, moverlap, mcalls>>
    /\ UNCHANGED <<lvars, cvars>>

\* line 52: matchRe.MatchString(str) on the global matchRe; a nil matchRe is
\* a nil-pointer dereference
MatchEval(p) ==
    /\ ~mpanic
    /\ mpc[p] = "eval"
    /\ IF matchRe.nil
       THEN /\ mpanic' = TRUE
            /\ UNCHANGED <<mres, merr, mdone, mpc>>
       ELSE /\ mres' = [mres EXCEPT ![p] = ReMatch(matchRe, mstr[p])]
            /\ merr' = [merr EXCEPT ![p] = "nil"]
            /\ mdone' = [mdone EXCEPT ![p] = TRUE]
            /\ mpc' = [mpc EXCEPT ![p] = "idle"]
            /\ UNCHANGED mpanic
    /\ UNCHANGED <<matchPat, matchRe, mpat, mstr, mprev, mcompiled, mlastc,
                   mld, moverlap, mcalls>>
    /\ UNCHANGED <<lvars, cvars>>

MatchNext ==
    \E p \in MatchCallers :
        \/ MatchCall(p)
        \/ MatchTest(p)
        \/ MatchTestPat(p)
        \/ MatchSetPat(p)
        \/ MatchLoad(p)
        \/ MatchCompile(p)
        \/ MatchErrCheck(p)
        \/ MatchEval(p)

ConcMatchNext ==
    \E p \in MatchProcs :
        \/ ConcMatchCall(p)
        \/ MatchTest(p)
        \/ MatchTestPat(p)
        \/ MatchSetPat(p)
        \/ MatchLoad(p)
        \/ MatchCompile(p)
        \/ MatchErrCheck(p)
        \/ MatchEval(p)

(***************************************************************************)
(* The test log: inputs.                                                   *)
(***************************************************************************)
\* the io.Writers a caller may hand to StartTestLog
Sinks == {"s1", "s2"}
\* the names a caller may record: a plain one, the empty one, one with "\n"
Names == {<<"x">>, <<>>, <<"x", "\n", "y">>}
\* the recording entry points of testLog
Entries == {"Getenv", "Open", "Stat", "Chdir"}
\* how many bytes a failing io.Writer takes before it reports its error
FailWrites == {0, 1}

\* the ops as they would be if Stat handed add the op of Open
OpOfStatAsOpen(entry) ==
    CASE entry = "Getenv" -> <<"g", "e", "t", "e", "n", "v">>
      [] entry = "Open"   -> <<"o", "p", "e", "n">>
      [] entry = "Stat"   -> <<"o", "p", "e", "n">>
      [] entry = "Chdir"  -> <<"c", "h", "d", "i", "r">>

\* lines 81-95: the op each entry point hands to add
OpOf(entry) ==
    CASE entry = "Getenv" -> <<"g", "e", "t", "e", "n", "v">>
      [] entry = "Open"   -> <<"o", "p", "e", "n">>
      [] entry = "Stat"   -> <<"s", "t", "a", "t">>
      [] entry = "Chdir"  -> <<"c", "h", "d", "i", "r">>

\* line 126: the header
Header == <<"#", " ", "t", "e", "s", "t", " ", "l", "o", "g", "\n">>

\* the test of line 99 as it would be without strings.Contains
RejectedEmptyOnly(name) == name = <<>>

\* line 99: strings.Contains(name, "\n") || name == ""
Rejected(name) == (\E i \in 1..Len(name) : name[i] = "\n") \/ name = <<>>

(***************************************************************************)
(* bufio.Writer, for logs shorter than its buffer (4096 bytes): a write    *)
(* appends to the buffer, and only Flush hands the buffer to the sink.     *)
(***************************************************************************)
\* the nil *bufio.Writer
NoWriter == [nil |-> TRUE, sink |-> "none", buf |-> <<>>]

\* line 118 as it would be if it kept a writer that is already installed
NewWriterIfAbsent(s) ==
    IF logw.nil THEN [nil |-> FALSE, sink |-> s, buf |-> <<>>] ELSE logw

\* bufio.NewWriter(w)
NewWriter(s) == [nil |-> FALSE, sink |-> s, buf |-> <<>>]

\* WriteString / WriteByte on a writer that is not nil
BufWrite(w, bytes) == [w EXCEPT !.buf = w.buf \o bytes]

\* the outcomes of Flush: nothing to write and no error when the buffer is
\* empty; else the sink takes all of it, or takes n bytes and fails
FlushOutcomes(w) ==
    IF w.buf = <<>>
    THEN {[n |-> 0, err |-> "nil"]}
    ELSE {[n |-> Len(w.buf), err |-> "nil"]}
         \cup {[n |-> n, err |-> "write error"] : n \in FailWrites \cap 0..Len(w.buf)}

LogInit ==
    /\ mu = 0
    /\ logw = NoWriter
    /\ logset = FALSE
    /\ sinks = [s \in Sinks |-> <<>>]
    /\ registered = 0
    /\ lpc = [p \in Procs |-> "idle"]
    /\ lcall = [p \in Procs |-> "none"]
    /\ lop = [p \in Procs |-> <<>>]
    /\ lname = [p \in Procs |-> <<>>]
    /\ lsink = [p \in Procs |-> "none"]
    /\ lerr = [p \in Procs |-> "nil"]
    /\ ldone = [p \in Procs |-> FALSE]
    /\ ncalls = 0
    /\ lpanic = FALSE
    /\ cur = [sink |-> "none", events |-> <<>>]
    /\ starts = 0
    /\ hdrs = 0
    /\ handed = [s \in Sinks |-> <<>>]
    /\ flushfail = FALSE

\* a goroutine may enter a call
CanCall(p) == ~lpanic /\ lpc[p] = "idle" /\ ncalls < MaxCalls

\* a goroutine stands at position at
At(p, at) == ~lpanic /\ lpc[p] = at

Goto(p, at) == lpc' = [lpc EXCEPT ![p] = at]

Return(p) ==
    /\ lpc' = [lpc EXCEPT ![p] = "idle"]
    /\ ldone' = [ldone EXCEPT ![p] = TRUE]

\* history: the writer in the slot is handed event e
Handed(e) ==
    [handed EXCEPT ![logw.sink] = Append(@, [e |-> e, gone |-> FALSE])]

\* history: the writer in the slot, if there is one, is replaced unflushed:
\* what it was handed (the last entries of its sink) is gone
Replaced ==
    IF logw.nil THEN handed
    ELSE [handed EXCEPT ![logw.sink] =
            [i \in DOMAIN @ |->
                IF i > Len(@) - Len(cur.events)
                THEN [@[i] EXCEPT !.gone = TRUE] ELSE @[i]]]

(***************************************************************************)
(* sync.Mutex.                                                             *)
(***************************************************************************)
\* a Lock that excludes nobody
LockNoExclusion(p) == mu' = p

\* l.mu.Lock(): blocks while another goroutine holds the mutex
Lock(p) == mu = 0 /\ mu' = p

\* l.mu.Unlock()
Unlock(p) == mu' = 0

(***************************************************************************)
(* testLog.Getenv / Open / Stat / Chdir and testLog.add, lines 81-112.     *)
(***************************************************************************)
\* lines 81-95: an entry point calls add with its op and the caller's name
RecordCall(p) ==
    /\ CanCall(p)
    /\ \E entry \in Entries, name \in Names :
        /\ lcall' = [lcall EXCEPT ![p] = entry]
        /\ lop' = [lop EXCEPT ![p] = OpOf(entry)]
        /\ lname' = [lname EXCEPT ![p] = name]
    /\ ldone' = [ldone EXCEPT ![p] = FALSE]
    /\ ncalls' = ncalls + 1
    /\ Goto(p, "add_check")
    /\ UNCHANGED <<mu, logw, logset, sinks, registered, lsink, lerr, lpanic,
                   cur, starts, hdrs, handed, flushfail>>
    /\ UNCHANGED <<mvars, cvars>>

\* lines 99-101
AddCheck(p) ==
    /\ At(p, "add_check")
    /\ IF Rejected(lname[p])
       THEN Return(p)
       ELSE Goto(p, "add_lock") /\ UNCHANGED ldone
    /\ UNCHANGED <<mu, logw, logset, sinks, registered, lcall, lop, lname,
                   lsink, lerr, ncalls, lpanic, cur, starts, hdrs, handed, flushfail>>
    /\ UNCHANGED <<mvars, cvars>>

\* line 103 (line 104 defers the Unlock to the return)
AddLock(p) ==
    /\ At(p, "add_lock")
    /\ Lock(p)
    /\ Goto(p, "add_nil")
    /\ UNCHANGED <<logw, logset, sinks, registered, lcall, lop, lname, lsink,
                   lerr, ldone, ncalls, lpanic, cur, starts, hdrs, handed, flushfail>>
    /\ UNCHANGED <<mvars, cvars>>

\* the test of line 105 as it would be if it never saw a nil writer
WriterNeverAbsent == FALSE

\* line 105: l.w == nil
WriterAbsent == logw.nil

\* lines 105-107: with no writer the call returns; else the writer in the
\* slot is about to be handed this call's line
AddNil(p) ==
    /\ At(p, "add_nil")
    /\ IF WriterAbsent
       THEN Goto(p, "add_unlock") /\ UNCHANGED <<cur, handed>>
       ELSE /\ Goto(p, "add_op")
            /\ cur' = [cur EXCEPT !.events =
                          Append(@, [by |-> p, kind |-> lcall[p], name |-> lname[p]])]
            /\ handed' = Handed([by |-> p, kind |-> lcall[p], name |-> lname[p]])
    /\ UNCHANGED <<mu, logw, logset, sinks, registered, lcall, lop, lname,
                   lsink, lerr, ldone, ncalls, lpanic, starts, hdrs, flushfail>>
    /\ UNCHANGED <<mvars, cvars>>

\* one of the four writes of lines 108-111: l.w is read again each time,
\* and a nil l.w is a nil dereference (the deferred Unlock still runs)
AddWrite(p, at, bytes, next) ==
    /\ At(p, at)
    /\ IF logw.nil
       THEN lpanic' = TRUE /\ Unlock(p) /\ UNCHANGED <<logw, lpc>>
       ELSE /\ logw' = BufWrite(logw, bytes)
            /\ Goto(p, next)
            /\ UNCHANGED <<mu, lpanic>>
    /\ UNCHANGED <<logset, sinks, registered, lcall, lop, lname, lsink, lerr,
                   ldone, ncalls, cur, starts, hdrs, handed, flushfail>>
    /\ UNCHANGED <<mvars, cvars>>

\* line 109: the byte between op and name
Separator == <<" ">>

\* line 108
AddOp(p) == AddWrite(p, "add_op", lop[p], "add_sp")

\* line 109
AddSp(p) == AddWrite(p, "add_sp", Separator, "add_name")

\* line 110
AddName(p) == AddWrite(p, "add_name", lname[p], "add_nl")

\* line 111
AddNl(p) == AddWrite(p, "add_nl", <<"\n">>, "add_unlock")

\* the deferred Unlock of line 104, at either return
AddUnlock(p) ==
    /\ At(p, "add_unlock")
    /\ Unlock(p)
    /\ Return(p)
    /\ UNCHANGED <<logw, logset, sinks, registered, lcall, lop, lname, lsink,
                   lerr, ncalls, lpanic, cur, starts, hdrs, handed, flushfail>>
    /\ UNCHANGED <<mvars, cvars>>

(***************************************************************************)
(* SetLogger: the process-wide registry takes one logger; a second call    *)
(* panics (lines 120-123).                                                 *)
(***************************************************************************)
SetLogger ==
    /\ registered' = registered + 1
    /\ lpanic' = (registered >= 1)

(***************************************************************************)
(* TestDeps.StartTestLog, lines 116-129.                                   *)
(***************************************************************************)
StartCall(p) ==
    /\ CanCall(p)
    /\ \E s \in Sinks : lsink' = [lsink EXCEPT ![p] = s]
    /\ lcall' = [lcall EXCEPT ![p] = "Start"]
    /\ ldone' = [ldone EXCEPT ![p] = FALSE]
    /\ ncalls' = ncalls + 1
    /\ Goto(p, "start_lock")
    /\ UNCHANGED <<mu, logw, logset, sinks, registered, lop, lname, lerr,
                   lpanic, cur, starts, hdrs, handed, flushfail>>
    /\ UNCHANGED <<mvars, cvars>>

\* line 117
StartLock(p) ==
    /\ At(p, "start_lock")
    /\ Lock(p)
    /\ Goto(p, "start_new")
    /\ UNCHANGED <<logw, logset, sinks, registered, lcall, lop, lname, lsink,
                   lerr, ldone, ncalls, lpanic, cur, starts, hdrs, handed, flushfail>>
    /\ UNCHANGED <<mvars, cvars>>

\* line 118: the writer in the slot, flushed or not, is replaced
StartNew(p) ==
    /\ At(p, "start_new")
    /\ logw' = NewWriter(lsink[p])
    /\ cur' = [sink |-> lsink[p], events |-> <<>>]
    /\ handed' = Replaced
    /\ Goto(p, "start_chk")
    /\ UNCHANGED <<mu, logset, sinks, registered, lcall, lop, lname, lsink,
                   lerr, ldone, ncalls, lpanic, starts, hdrs, flushfail>>
    /\ UNCHANGED <<mvars, cvars>>

\* the condition of line 119 as it would be if every start were the first
EveryStartFirst == TRUE

\* the condition of line 119 as it would be with the negation left out
FirstStartInverted == logset

\* line 119: if !log.set
FirstStart == ~logset

\* line 119
StartChk(p) ==
    /\ At(p, "start_chk")
    /\ Goto(p, IF FirstStart THEN "start_set" ELSE "start_unlock")
    /\ UNCHANGED <<mu, logw, logset, sinks, registered, lcall, lop, lname,
                   lsink, lerr, ldone, ncalls, lpanic, cur, starts, hdrs, handed, flushfail>>
    /\ UNCHANGED <<mvars, cvars>>

\* line 124
StartSet(p) ==
    /\ At(p, "start_set")
    /\ logset' = TRUE
    /\ Goto(p, "start_reg")
    /\ UNCHANGED <<mu, logw, sinks, registered, lcall, lop, lname, lsink,
                   lerr, ldone, ncalls, lpanic, cur, starts, hdrs, handed, flushfail>>
    /\ UNCHANGED <<mvars, cvars>>

\* line 125
StartReg(p) ==
    /\ At(p, "start_reg")
    /\ SetLogger
    /\ Goto(p, "start_hdr")
    /\ UNCHANGED <<mu, logw, logset, sinks, lcall, lop, lname, lsink, lerr,
                   ldone, ncalls, cur, starts, hdrs, handed, flushfail>>
    /\ UNCHANGED <<mvars, cvars>>

\* line 126
StartHdr(p) ==
    /\ At(p, "start_hdr")
    /\ IF logw.nil
       THEN lpanic' = TRUE /\ UNCHANGED <<logw, lpc, cur, hdrs, handed>>
       ELSE /\ logw' = BufWrite(logw, Header)
            /\ hdrs' = hdrs + 1
            /\ cur' = [cur EXCEPT !.events =
                          Append(@, [by |-> p, kind |-> "header", name |-> <<>>])]
            /\ handed' = Handed([by |-> p, kind |-> "header", name |-> <<>>])
            /\ Goto(p, "start_unlock")
            /\ UNCHANGED lpanic
    /\ UNCHANGED <<mu, logset, sinks, registered, lcall, lop, lname, lsink,
                   lerr, ldone, ncalls, starts, flushfail>>
    /\ UNCHANGED <<mvars, cvars>>

\* line 128
StartUnlock(p) ==
    /\ At(p, "start_unlock")
    /\ Unlock(p)
    /\ Return(p)
    /\ starts' = starts + 1
    /\ UNCHANGED <<logw, logset, sinks, registered, lcall, lop, lname, lsink,
                   lerr, ncalls, lpanic, cur, hdrs, handed, flushfail>>
    /\ UNCHANGED <<mvars, cvars>>

(***************************************************************************)
(* TestDeps.StopTestLog, lines 131-137.                                    *)
(***************************************************************************)
StopCall(p) ==
    /\ CanCall(p)
    /\ lcall' = [lcall EXCEPT ![p] = "Stop"]
    /\ lerr' = [lerr EXCEPT ![p] = "nil"]
    /\ ldone' = [ldone EXCEPT ![p] = FALSE]
    /\ ncalls' = ncalls + 1
    /\ Goto(p, "stop_lock")
    /\ UNCHANGED <<mu, logw, logset, sinks, registered, lop, lname, lsink,
                   lpanic, cur, starts, hdrs, handed, flushfail>>
    /\ UNCHANGED <<mvars, cvars>>

\* line 132 (line 133 defers the Unlock to the return)
StopLock(p) ==
    /\ At(p, "stop_lock")
    /\ Lock(p)
    /\ Goto(p, "stop_flush")
    /\ UNCHANGED <<logw, logset, sinks, registered, lcall, lop, lname, lsink,
                   lerr, ldone, ncalls, lpanic, cur, starts, hdrs, handed, flushfail>>
    /\ UNCHANGED <<mvars, cvars>>

\* Flush as it would be if StopTestLog dropped the buffer unwritten
FlushNothing(w, out) == <<>>

\* what the sink receives from a Flush with outcome out
Flushed(w, out) == SubSeq(w.buf, 1, out.n)

\* StopTestLog's err as it would be if the Flush error were dropped
FlushErrDropped(out) == "nil"

\* line 134: the error Flush returns, kept in err
FlushErr(out) == out.err

\* line 134: err := log.w.Flush(); Flush on a nil log.w is a nil
\* dereference (the deferred Unlock still runs)
StopFlush(p) ==
    /\ At(p, "stop_flush")
    /\ IF logw.nil
       THEN /\ lpanic' = TRUE
            /\ Unlock(p)
            /\ UNCHANGED <<logw, sinks, lerr, lpc, flushfail>>
       ELSE /\ \E out \in FlushOutcomes(logw) :
                /\ sinks' = [sinks EXCEPT ![logw.sink] = @ \o Flushed(logw, out)]
                /\ logw' = [logw EXCEPT !.buf = SubSeq(@, out.n + 1, Len(@))]
                /\ lerr' = [lerr EXCEPT ![p] = FlushErr(out)]
                /\ flushfail' = (flushfail \/ out.err # "nil")
            /\ Goto(p, "stop_clear")
            /\ UNCHANGED <<mu, lpanic>>
    /\ UNCHANGED <<logset, registered, lcall, lop, lname, lsink, ldone,
                   ncalls, cur, starts, hdrs, handed>>
    /\ UNCHANGED <<mvars, cvars>>

\* the logger's fields as they would be if stop reset the armed flag too
ClearedWithFlag == [w |-> NoWriter, set |-> FALSE]

\* line 135: the logger's fields after log.w = nil; log.set is not assigned
Cleared == [w |-> NoWriter, set |-> logset]

\* line 135
StopClear(p) ==
    /\ At(p, "stop_clear")
    /\ logw' = Cleared.w
    /\ logset' = Cleared.set
    /\ Goto(p, "stop_ret")
    /\ UNCHANGED <<mu, sinks, registered, lcall, lop, lname, lsink,
                   lerr, ldone, ncalls, lpanic, cur, starts, hdrs, handed, flushfail>>
    /\ UNCHANGED <<mvars, cvars>>

\* line 136 and the deferred Unlock of line 133
StopRet(p) ==
    /\ At(p, "stop_ret")
    /\ Unlock(p)
    /\ Return(p)
    /\ UNCHANGED <<logw, logset, sinks, registered, lcall, lop, lname, lsink,
                   lerr, ncalls, lpanic, cur, starts, hdrs, handed, flushfail>>
    /\ UNCHANGED <<mvars, cvars>>

LogNext ==
    \E p \in Procs :
        \/ RecordCall(p)
        \/ AddCheck(p)
        \/ AddLock(p)
        \/ AddNil(p)
        \/ AddOp(p)
        \/ AddSp(p)
        \/ AddName(p)
        \/ AddNl(p)
        \/ AddUnlock(p)
        \/ StartCall(p)
        \/ StartLock(p)
        \/ StartNew(p)
        \/ StartChk(p)
        \/ StartSet(p)
        \/ StartReg(p)
        \/ StartHdr(p)
        \/ StartUnlock(p)
        \/ StopCall(p)
        \/ StopLock(p)
        \/ StopFlush(p)
        \/ StopClear(p)
        \/ StopRet(p)

(***************************************************************************)
(* TestDeps.CheckCorpus, lines 144-158.                                    *)
(***************************************************************************)
\* the values a corpus entry may hold: two ints, a string, the nil interface
CorpusValues == {[t |-> "int", v |-> "1"], [t |-> "int", v |-> "2"],
                 [t |-> "string", v |-> "a"], [t |-> "nil", v |-> ""]}
\* the reflect.Types a caller may expect, the nil Type among them
CorpusTypes == {"int", "string", "nil"}

\* reflect.TypeOf(v): the dynamic type of v, the nil Type for a nil interface
TypeOf(v) == v.t

\* the test of line 145 as it would be if it never fired
LenDiffersNever(vals, types) == FALSE

\* line 145: len(vals) != len(types)
LenDiffers(vals, types) == Len(vals) # Len(types)

\* the nil error
NoError == [kind |-> "nil", got |-> 0, want |-> 0, valsT |-> <<>>, types |-> <<>>]

\* lines 145-157: the count error of line 146; else valsT of lines 148-151
\* and the loop of lines 152-156, which returns the type error of line 154
\* at the first position that disagrees and panics if it indexes past valsT
CheckCorpus(vals, types) ==
    IF LenDiffers(vals, types)
    THEN [kind |-> "count", got |-> Len(vals), want |-> Len(types),
          valsT |-> <<>>, types |-> <<>>]
    ELSE LET valsT == [i \in 1..Len(vals) |-> TypeOf(vals[i])]
             stops == {i \in 1..Len(types) :
                          i > Len(valsT) \/ valsT[i] # types[i]}
             first == CHOOSE i \in stops : \A j \in stops : i <= j
         IN  IF stops = {} THEN NoError
             ELSE IF first > Len(valsT)
             THEN [kind |-> "panic", got |-> 0, want |-> 0,
                   valsT |-> <<>>, types |-> <<>>]
             ELSE [kind |-> "types", got |-> 0, want |-> 0,
                   valsT |-> valsT, types |-> types]

\* no CheckCorpus call is under way
CorpusIdle ==
    /\ cvals = <<>>
    /\ ctypes = <<>>
    /\ cpc = "off"
    /\ cres = NoError

\* a caller is about to call CheckCorpus(vals, types)
CorpusReady ==
    /\ cvals \in SeqsUpTo(CorpusValues, MaxCorpusLen)
    /\ ctypes \in SeqsUpTo(CorpusTypes, MaxCorpusLen)
    /\ cpc = "ready"
    /\ cres = NoError

\* the call
CorpusCall ==
    /\ cpc = "ready"
    /\ cres' = CheckCorpus(cvals, ctypes)
    /\ cpc' = "done"
    /\ UNCHANGED <<cvals, ctypes, mvars, lvars>>

\* the caller goes on to check another entry
CorpusAgain ==
    /\ cpc = "done"
    /\ \E vals \in SeqsUpTo(CorpusValues, MaxCorpusLen),
          types \in SeqsUpTo(CorpusTypes, MaxCorpusLen) :
        /\ cvals' = vals
        /\ ctypes' = types
    /\ cres' = NoError
    /\ cpc' = "ready"
    /\ UNCHANGED <<mvars, lvars>>

CorpusNext == CorpusCall \/ CorpusAgain

(***************************************************************************)
(* Specifications.                                                         *)
(***************************************************************************)
Init == MatchInit /\ LogInit /\ CorpusIdle

\* the state before a CheckCorpus call, with its arguments chosen
CorpusInit == MatchInit /\ LogInit /\ CorpusReady

\* CheckCorpus on every pair of arguments up to MaxCorpusLen
SpecCorpus == CorpusInit /\ [][CorpusNext]_vars

\* MatchString under sequential use
SpecMatch == Init /\ [][MatchNext]_vars

\* MatchString under concurrent use by two goroutines
SpecMatchConc == Init /\ [][ConcMatchNext]_vars

\* the test log under concurrent use
SpecLog == Init /\ [][LogNext]_vars

(***************************************************************************)
(* What the specification says, stated on its own terms.                   *)
(***************************************************************************)
\* a pattern of the syntax above is valid when no "(" is left open
ValidPattern(P) == \A i \in 1..Len(P) : P[i] # "("

\* s matches P: some substring of s agrees with P, "." agreeing with any
\* character
Matches(P, s) ==
    \E off \in 0..(Len(s) - Len(P)) :
        \A j \in 1..Len(P) : P[j] = "." \/ P[j] = s[off + j]

\* a completed MatchString call of caller p
Completed(p) == mdone[p] /\ mpc[p] = "idle"

\* "<op>" of each recording entry point
SpecOp(entry) ==
    CASE entry = "Getenv" -> <<"g", "e", "t", "e", "n", "v">>
      [] entry = "Open"   -> <<"o", "p", "e", "n">>
      [] entry = "Stat"   -> <<"s", "t", "a", "t">>
      [] entry = "Chdir"  -> <<"c", "h", "d", "i", "r">>

\* the header line "# test log\n"
HeaderLine == <<"#", " ", "t", "e", "s", "t", " ", "l", "o", "g", "\n">>

\* the line "<op> <name>\n" of a recording call, or the header
LineOf(e) ==
    IF e.kind = "header"
    THEN HeaderLine
    ELSE SpecOp(e.kind) \o <<" ">> \o e.name \o <<"\n">>

\* the lines of a sequence of events, one after the other
RECURSIVE Concat(_)
Concat(es) == IF es = <<>> THEN <<>> ELSE LineOf(Head(es)) \o Concat(Tail(es))

\* name is empty or holds a newline
BadName(name) == name = <<>> \/ \E i \in DOMAIN name : name[i] = "\n"

\* t ends with s
IsSuffix(s, t) ==
    Len(s) <= Len(t) /\ SubSeq(t, Len(t) - Len(s) + 1, Len(t)) = s

\* the positions of add between taking the mutex and releasing it
AddPcs == {"add_nil", "add_op", "add_sp", "add_name", "add_nl", "add_unlock"}
\* the positions of add at which part of a line may be in the writer
WritePcs == {"add_op", "add_sp", "add_name", "add_nl"}
\* the positions of any call between taking the mutex and releasing it
HeldPcs == AddPcs \cup {"start_new", "start_chk", "start_set", "start_reg",
                        "start_hdr", "start_unlock", "stop_flush",
                        "stop_clear", "stop_ret"}

\* a writer is installed and StopTestLog has not begun to flush it
Unflushed == ~logw.nil /\ \A p \in Procs : lpc[p] # "stop_clear"

(***************************************************************************)
(* C1..C2: the pattern cache under sequential use.                         *)
(***************************************************************************)
\* C1: a completed MatchString(P, s) with a valid P has returned (true iff
\* s matches P, no error), whatever calls came before it, and no call has
\* crashed.
C1_ResultOfValidPattern ==
    /\ ~mpanic
    /\ \A p \in MatchCallers :
        (Completed(p) /\ ValidPattern(mpat[p])) =>
            /\ merr[p] = "nil"
            /\ mres[p] = Matches(mpat[p], mstr[p])

\* a valid pattern was compiled and matched right after a completed call
\* with another pattern
C1_Witness ==
    \E p \in MatchCallers :
        /\ Completed(p) /\ ValidPattern(mpat[p]) /\ mres[p]
        /\ mcompiled[p]
        /\ mprev[p].called /\ mprev[p].pat # mpat[p] /\ mprev[p].err = "nil"

\* C2: a call with a pattern that does not compile returns the compile
\* error and never evaluates the candidate; it always compiles (also right
\* after a failed compile of the same pattern); and the call after a failed
\* one neither crashes nor returns a wrong result.
C2_FailedCompile ==
    /\ ~mpanic
    /\ \A p \in MatchCallers :
        /\ mpc[p] = "eval" => ValidPattern(mpat[p])
        /\ (Completed(p) /\ ~ValidPattern(mpat[p])) =>
            /\ merr[p] # "nil"
            /\ mres[p] = FALSE
            /\ mcompiled[p]
            /\ matchRe.nil
        /\ (Completed(p) /\ mprev[p].called /\ mprev[p].err # "nil"
                /\ ValidPattern(mpat[p])) =>
            /\ merr[p] = "nil"
            /\ mres[p] = Matches(mpat[p], mstr[p])

\* the same invalid pattern failed twice in a row
C2_Witness ==
    \E p \in MatchCallers :
        /\ Completed(p) /\ ~ValidPattern(mpat[p]) /\ merr[p] # "nil"
        /\ mprev[p].called /\ mprev[p].pat = mpat[p] /\ mprev[p].err # "nil"

(***************************************************************************)
(* C3..C10: the test log.                                                  *)
(***************************************************************************)
\* C3: a recording call with a good name that finds a writer installed
\* appends exactly its line "<op> <name>\n", <op> being that of the entry
\* point called: when its writes begin the writer lacks exactly that line,
\* and when they are done the writer holds it last and nothing else new.
C3_RecordAppendsItsLine ==
    \A p \in Procs :
        LET line == SpecOp(lcall[p]) \o <<" ">> \o lname[p] \o <<"\n">>
        IN  /\ lpc[p] = "add_op" =>
                /\ ~logw.nil
                /\ logw.buf \o line = Concat(cur.events)
            /\ (lpc[p] = "add_unlock" /\ ~logw.nil) =>
                /\ cur.events # <<>>
                /\ cur.events[Len(cur.events)] =
                       [by |-> p, kind |-> lcall[p], name |-> lname[p]]
                /\ logw.buf = Concat(cur.events)
                /\ IsSuffix(line, logw.buf)

\* a Stat call has written its line behind the header
C3_Witness ==
    \E p \in Procs :
        /\ lpc[p] = "add_unlock" /\ ~logw.nil
        /\ lcall[p] = "Stat"
        /\ Len(cur.events) = 2

\* C4: a recording call whose name is empty or holds a newline returns at
\* once and changes nothing of the logger: not the writer slot, the buffer,
\* the armed flag, the mutex, the sinks or the registration; such a name
\* never gets past the check.
C4_BadNameIsNoOp ==
    /\ [](\A p \in Procs : lpc[p] \in AddPcs \cup {"add_lock"} => ~BadName(lname[p]))
    /\ [][\A p \in Procs :
            (lpc[p] = "add_check" /\ BadName(lname[p]) /\ lpc'[p] # lpc[p]) =>
                /\ lpc'[p] = "idle"
                /\ UNCHANGED <<mu, logw, logset, sinks, registered, lpanic, cur>>
         ]_vars

\* a call with a name holding a newline has returned while a writer was
\* installed
C4_Witness ==
    \E p \in Procs :
        /\ ldone[p] /\ lpc[p] = "idle" /\ lcall[p] \in Entries
        /\ lname[p] = <<"x", "\n", "y">>
        /\ ~logw.nil

\* C5: the header is written at most once, it has been written when the
\* first StartTestLog has returned, and it is the first thing in the writer
\* that start installed: no record line gets in before it.
C5_HeaderOnceAndFirst ==
    /\ hdrs <= 1
    /\ starts >= 1 => hdrs = 1
    /\ \A i \in DOMAIN cur.events : cur.events[i].kind = "header" => i = 1
    /\ \A p \in Procs : lpc[p] = "start_hdr" => (logw.buf = <<>> /\ hdrs = 0)
    /\ (cur.events # <<>> /\ cur.events[1].kind = "header" /\ Unflushed) =>
           SubSeq(logw.buf, 1, Len(HeaderLine)) = HeaderLine

\* two starts have returned and the header was written once
C5_Witness == starts >= 2 /\ hdrs = 1

\* C6: SetLogger is called at most once, and has been called when the first
\* StartTestLog has returned.
C6_RegisteredOnce ==
    /\ registered <= 1
    /\ starts >= 1 => registered = 1

\* a stop and two starts have returned and SetLogger was called once
C6_Witness ==
    /\ starts >= 2 /\ registered = 1
    /\ \E p \in Procs : lcall[p] = "Stop" /\ ldone[p]

\* C7: the writes of one line are not interleaved with any other use of the
\* writer: at most one goroutine is between Lock and Unlock, the writer
\* holds the lines of the calls it accepted, in the order they took the
\* mutex, the last of them possibly still being written, and all of them
\* complete whenever the mutex is free (until StopTestLog flushes it).
C7_LinesAreWhole ==
    /\ Cardinality({p \in Procs : lpc[p] \in HeldPcs}) <= 1
    /\ ~lpanic => \A p \in Procs : lpc[p] \in HeldPcs => mu = p
    /\ (Unflushed /\ ~\E p \in Procs : lpc[p] \in WritePcs) =>
           logw.buf = Concat(cur.events)
    /\ \A p \in Procs : (~logw.nil /\ lpc[p] \in WritePcs) =>
           /\ cur.events # <<>>
           /\ LET n == Len(cur.events)
                  done == Concat(SubSeq(cur.events, 1, n - 1))
                  last == LineOf(cur.events[n])
              IN  \E k \in 0..Len(last) : logw.buf = done \o SubSeq(last, 1, k)

\* the free writer holds lines of both goroutines
C7_Witness ==
    /\ mu = 0 /\ ~logw.nil
    /\ \E i, j \in DOMAIN cur.events :
        /\ cur.events[i].kind \in Entries /\ cur.events[i].by = 1
        /\ cur.events[j].kind \in Entries /\ cur.events[j].by = 2

\* C8: when StopTestLog is about to return no error, the writer slot is
\* empty and the sink of the last start ends with every line handed to the
\* writer since that start, in order.
C8_StopFlushes ==
    \A p \in Procs :
        (lpc[p] = "stop_ret" /\ lerr[p] = "nil") =>
            /\ logw.nil
            /\ cur.sink \in Sinks
            /\ IsSuffix(Concat(cur.events), sinks[cur.sink])

\* a stop returns no error after the header and a record line
C8_Witness ==
    \E p \in Procs :
        /\ lpc[p] = "stop_ret" /\ lerr[p] = "nil"
        /\ Len(cur.events) = 2 /\ cur.events[1].kind = "header"

\* C9: a recording call that finds the writer slot empty goes straight to
\* its return and changes nothing but the mutex it releases: nothing is
\* buffered for it, no sink receives anything, and no write is ever tried
\* on an empty slot.
C9_DroppedWithoutWriter ==
    /\ [](~lpanic => \A p \in Procs : lpc[p] \in WritePcs => ~logw.nil)
    /\ [][\A p \in Procs :
            /\ (lpc[p] = "add_nil" /\ logw.nil /\ lpc'[p] # lpc[p]) =>
                /\ lpc'[p] = "add_unlock"
                /\ UNCHANGED <<mu, logw, logset, sinks, registered, lpanic, cur>>
            /\ (lpc[p] = "add_unlock" /\ logw.nil /\ lpc'[p] # lpc[p]) =>
                /\ lpc'[p] = "idle" /\ mu' = 0
                /\ UNCHANGED <<logw, logset, sinks, registered, lpanic, cur>>
         ]_vars

\* after a stop, a recording call with a good name is being dropped
C9_Witness ==
    \E p \in Procs :
        /\ lpc[p] = "add_unlock" /\ logw.nil /\ logset
        /\ ~BadName(lname[p])

\* C10: a Flush that does not get the whole buffer into the sink makes
\* StopTestLog return an error; with or without an error the slot is empty
\* when stop returns, and stop releases the mutex on returning, so the
\* mutex is free whenever no call is in progress.
C10_FlushFailure ==
    /\ [](\A p \in Procs : lpc[p] = "stop_ret" => logw.nil)
    /\ []((\A p \in Procs : lpc[p] = "idle") => mu = 0)
    /\ [][\A p \in Procs :
            /\ (lpc[p] = "stop_flush" /\ lpc'[p] = "stop_clear"
                    /\ sinks'[logw.sink] # sinks[logw.sink] \o logw.buf) =>
                lerr'[p] # "nil"
            /\ (lpc[p] = "stop_ret" /\ lpc'[p] = "idle") =>
                /\ mu' = 0 /\ lerr'[p] = lerr[p] /\ logw'.nil
         ]_vars

\* a stop has returned an error, and a later start has installed a writer
\* that has taken a record line
C10_Witness ==
    /\ \E p \in Procs : ldone[p] /\ lcall[p] = "Stop" /\ lerr[p] # "nil"
    /\ mu = 0 /\ ~logw.nil
    /\ cur.events # <<>> /\ logw.buf = Concat(cur.events)

(***************************************************************************)
(* C11..C12: StopTestLog with no writer installed.                         *)
(***************************************************************************)
\* C11: a StopTestLog that finds no writer installed (before any start, or
\* right after a stop) does not crash: it goes on to clear the slot with no
\* error, leaving the armed flag as it was.
C11_StopWithoutWriter ==
    [][\A p \in Procs :
        (lpc[p] = "stop_flush" /\ logw.nil /\ ~lpanic) =>
            /\ ~lpanic'
            /\ lpc'[p] # lpc[p] =>
                (lpc'[p] = "stop_clear" /\ lerr'[p] = "nil"
                    /\ logw'.nil /\ logset' = logset)
      ]_vars

\* C12: no call is ever left unable to finish: while some call is in
\* progress, some goroutine can take a step.
C12_EveryCallCanFinish ==
    (\E p \in Procs : lpc[p] # "idle") => ENABLED LogNext

(***************************************************************************)
(* C13: CheckCorpus.                                                       *)
(***************************************************************************)
\* the type a corpus value has, as the specification names it
SpecTypeOf(v) ==
    CASE v \in {[t |-> "int", v |-> "1"], [t |-> "int", v |-> "2"]} -> "int"
      [] v = [t |-> "string", v |-> "a"] -> "string"
      [] v = [t |-> "nil", v |-> ""] -> "nil"

\* C13: CheckCorpus returns the count error whenever the lengths differ,
\* whatever the types; with equal lengths the type error, naming the actual
\* and the expected types, iff some position disagrees; else no error; and
\* it never panics.
C13_CheckCorpus ==
    cpc = "done" =>
        /\ cres.kind # "panic"
        /\ cres.kind = "count" <=> Len(cvals) # Len(ctypes)
        /\ cres.kind = "count" =>
               (cres.got = Len(cvals) /\ cres.want = Len(ctypes))
        /\ cres.kind = "types" <=>
               /\ Len(cvals) = Len(ctypes)
               /\ \E i \in 1..Len(cvals) : SpecTypeOf(cvals[i]) # ctypes[i]
        /\ cres.kind = "types" =>
               /\ cres.valsT = [i \in 1..Len(cvals) |-> SpecTypeOf(cvals[i])]
               /\ cres.types = ctypes
        /\ cres.kind = "nil" <=>
               /\ Len(cvals) = Len(ctypes)
               /\ \A i \in 1..Len(cvals) : SpecTypeOf(cvals[i]) = ctypes[i]

\* CheckCorpus([1, 2], [int, string]) has returned the type error
C13_Witness ==
    /\ cpc = "done"
    /\ cvals = <<[t |-> "int", v |-> "1"], [t |-> "int", v |-> "2"]>>
    /\ ctypes = <<"int", "string">>
    /\ cres.kind = "types"

(***************************************************************************)
(* C14: the cache slot under sequential use.                               *)
(***************************************************************************)
\* C14: after every completed call the slot, if present, is the matcher of
\* the cached pattern string (it is the program of that string and matches
\* as that string does), and the string is the pat of the last call that
\* compiled; after a failed compile the slot is absent and the string is
\* the failed pattern; and line 45 sends a call to compile iff the slot is
\* absent or the string differs from its pat.
C14_CacheSlot ==
    /\ [](\A p \in MatchCallers :
            Completed(p) =>
                /\ matchPat = mlastc
                /\ matchPat = mpat[p]
                /\ ~matchRe.nil =>
                    /\ ValidPattern(matchPat)
                    /\ Len(matchRe.prog) = Len(matchPat)
                    /\ \A s \in Candidates :
                           ReMatch(matchRe, s) = Matches(matchPat, s)
                /\ merr[p] # "nil" =>
                    (matchRe.nil /\ ~ValidPattern(matchPat)))
    /\ [][\A p \in MatchCallers :
            /\ (mpc[p] = "test" /\ mpc'[p] # "test") =>
                /\ mpc'[p] \in {"setpat", "testpat"}
                /\ mpc'[p] = "setpat" <=> matchRe.nil
            /\ (mpc[p] = "testpat" /\ mpc'[p] # "testpat") =>
                /\ ~matchRe.nil
                /\ mpc'[p] \in {"setpat", "eval"}
                /\ mpc'[p] = "setpat" <=> matchPat # mpat[p]
            /\ (mpc[p] = "setpat" /\ mpc'[p] # "setpat") =>
                (matchRe.nil \/ matchPat # mpat[p])
         ]_vars

\* a call has completed on a cache hit, the slot holding its pattern
C14_Witness ==
    \E p \in MatchCallers :
        /\ Completed(p) /\ ~mcompiled[p] /\ ~matchRe.nil
        /\ mpat[p] = <<"a", ".">>
        /\ mprev[p].called /\ mprev[p].pat = mpat[p]

(***************************************************************************)
(* C17: the cache under concurrent use.                                    *)
(***************************************************************************)
\* caller p is about to evaluate its candidate against a slot that is
\* absent or was compiled from another pattern than its own
WrongMatcher(p) ==
    /\ mpc[p] = "eval"
    /\ matchRe.nil \/ matchRe # Compile(mpat[p]).re

\* caller p has completed a call with the result or the error of another
\* pattern than its own
WrongResult(p) ==
    /\ Completed(p)
    /\ \/ (merr[p] = "nil") # ValidPattern(mpat[p])
       \/ ValidPattern(mpat[p]) /\ mres[p] # Matches(mpat[p], mstr[p])

\* C17: with two callers and no lock there is an interleaving in which a
\* call passes the hit test of line 45 and evaluates against a matcher
\* compiled from another pattern (the witness); and it takes concurrent
\* calls to get there: a wrong matcher at line 52, a wrong result, a wrong
\* error or a nil dereference is seen only once two callers have been
\* inside MatchString at the same time.
C17_UnsafeOnlyAfterOverlap ==
    /\ \A p \in MatchProcs : (WrongMatcher(p) \/ WrongResult(p)) => moverlap
    /\ mpanic => moverlap

\* a call has passed both halves of the hit test of line 45 and stands at
\* line 52 with a matcher compiled from another pattern, the other caller
\* standing between its assignment of matchPat and its assignment of
\* matchRe
C17_Witness ==
    \E p \in MatchProcs :
        /\ mpc[p] = "eval" /\ ~mcompiled[p]
        /\ matchPat = mpat[p]
        /\ ~matchRe.nil /\ matchRe # Compile(mpat[p]).re
        /\ \E q \in MatchProcs \ {p} : mpc[q] \in {"load", "compile"}

(***************************************************************************)
(* C15..C19: the logger's fields across start and stop.                    *)
(***************************************************************************)
\* the positions of StopTestLog between taking the mutex and returning
StopPcs == {"stop_flush", "stop_clear", "stop_ret"}

\* C15: log.set is monotonic: no step of any call takes it from true to
\* false; the one step that changes it is line 124 of the first
\* StartTestLog, before anything is registered or any header written; and
\* a step of StopTestLog leaves log.set, the registration and the header
\* count as they are, changing of the logger's fields only the writer slot.
C15_ArmedIsMonotonic ==
    [][/\ logset => logset'
       /\ logset' # logset =>
            /\ registered = 0 /\ hdrs = 0
            /\ \E p \in Procs :
                    /\ lcall[p] = "Start"
                    /\ lpc[p] = "start_set" /\ lpc'[p] = "start_reg"
       /\ \A p \in Procs :
            (lpc[p] \in StopPcs /\ lpc'[p] # lpc[p]) =>
                /\ logset' = logset
                /\ registered' = registered
                /\ hdrs' = hdrs
      ]_vars

\* StopTestLog has returned, two or more StartTestLog have returned, no
\* writer is installed and log.set is still true
C15_Witness ==
    /\ logset /\ logw.nil /\ starts >= 2 /\ ~lpanic
    /\ \E p \in Procs : lcall[p] = "Stop" /\ ldone[p] /\ lpc[p] = "idle"

\* C16: when a StartTestLog, first or later, has run line 118 the writer in
\* the slot is a new one, empty (but for this call's own header) and over
\* the sink this call was given; a recording call that writes its line
\* writes it into the writer over the sink of the latest start; and the one
\* sink that receives bytes is that of the latest start, never an earlier
\* one, and it receives what is buffered in the slot's writer.
C16_StartInstallsFreshWriter ==
    /\ [](\A p \in Procs :
            /\ lpc[p] \in {"start_chk", "start_set", "start_reg", "start_hdr"}
                => logw = [nil |-> FALSE, sink |-> lsink[p], buf |-> <<>>]
            /\ lpc[p] = "start_unlock"
                => /\ ~logw.nil /\ logw.sink = lsink[p]
                   /\ logw.buf \in {<<>>, HeaderLine}
            /\ lpc[p] \in WritePcs
                => ~logw.nil /\ logw.sink = cur.sink)
    /\ [][/\ \A p \in Procs :
                (lpc[p] = "start_new" /\ lpc'[p] # lpc[p]) =>
                    cur'.sink = lsink[p]
          /\ \A s \in Sinks :
                sinks'[s] # sinks[s] =>
                    /\ s = cur.sink /\ ~logw.nil /\ logw.sink = s
                    /\ \E k \in 1..Len(logw.buf) :
                            sinks'[s] = sinks[s] \o SubSeq(logw.buf, 1, k)
         ]_vars

\* a start over s1 was stopped and s1 holds its lines; a later start over
\* s2 has installed its writer and a record line is buffered in it
C16_Witness ==
    /\ sinks["s1"] # <<>> /\ sinks["s2"] = <<>>
    /\ ~logw.nil /\ logw.sink = "s2" /\ mu = 0
    /\ Len(cur.events) >= 1
    /\ \A i \in DOMAIN cur.events : cur.events[i].kind \in Entries
    /\ logw.buf = Concat(cur.events)

\* the events of a sequence of entries of handed
EventsOf(hs) == [i \in DOMAIN hs |-> hs[i].e]

\* the entries of handed whose writer was not replaced unflushed
NotGone(h) == ~h.gone

\* no call is running, no writer is installed, nothing has crashed and no
\* Flush has failed
Quiescent ==
    /\ \A p \in Procs : lpc[p] = "idle"
    /\ logw.nil /\ ~lpanic /\ ~flushfail

\* C18: when every call has returned, no writer is left installed and no
\* Flush has failed, each sink holds the line of every event that was handed
\* to a writer over it, in order: the header and every accepted record
\* line, those of a writer that a later start replaced included.
C18_NoLineLost ==
    Quiescent => \A s \in Sinks : sinks[s] = Concat(EventsOf(handed[s]))

\* C19: whenever the mutex is free, a writer in the slot implies log.set,
\* and log.set holds exactly when SetLogger has been called and the header
\* has been written.
C19_FieldsAgreeWhenUnlocked ==
    mu = 0 =>
        /\ ~logw.nil => logset
        /\ logset <=> (registered > 0 /\ hdrs > 0)

\* the mutex is free, a later start has installed a writer, and log.set,
\* the registration and the header are those of the first start
C19_Witness ==
    /\ mu = 0 /\ ~logw.nil /\ logset
    /\ registered = 1 /\ hdrs = 1 /\ starts >= 2

====
